---- MODULE Spec2Model ----
(***************************************************************************)
(* Model of src/src/gitea_webhooks.rs: the Gitea webhook -> Slack          *)
(* notification pipeline (Webhook::try_deanonymise_emails,                 *)
(* Webhook::post_slack_message and the render_* functions).                *)
(*                                                                         *)
(* Strings whose characters matter (comment body, pull-request body,       *)
(* repository full name, usernames) are sequences of one-character         *)
(* strings.  Rendered text is a sequence of string pieces: format!/md!     *)
(* is concatenation of the literal pieces and the arguments.               *)
(***************************************************************************)
EXTENDS Integers, Sequences, FiniteSets, TLC

VARIABLES
    webhook,      \* the Webhook: action, pull_request, sender, repository
    env,          \* process environment: which variables are set
    parent,       \* the caller's Option<SlackTs>
    pc,           \* position of the invocation
    users,        \* parse_comment_for_mention: usernames still to look up
    emails,       \* into_my_slack: recipient emails (mention_emails for Created)
    slack_users,  \* into_my_slack: Vec<Option<SlackUser>> pushed so far
    message,      \* rendered SlackMessageContent of the invocation
    calls,        \* remote calls made so far, in order
    result,       \* what the invocation gave its caller
    deanonymised  \* try_deanonymise_emails has returned

vars == <<webhook, env, parent, pc, users, emails, slack_users, message,
          calls, result, deanonymised>>

None == [tag |-> "None"]

(***************************************************************************)
(* Bounds of the model.                                                    *)
(***************************************************************************)
MaxBodyLen == 5
MaxNameLen == 3
MaxPrBodyLen == 4

(***************************************************************************)
(* str helpers, as the Rust standard library computes them.                *)
(***************************************************************************)
IsWhitespace(c) == c \in {" ", "\n", "\t", "\r"}

RECURSIVE StrSeqs(_, _)
StrSeqs(alphabet, n) ==
    IF n = 0 THEN {<<>>}
    ELSE LET shorter == StrSeqs(alphabet, n - 1)
         IN  shorter \cup {Append(s, c) : s \in {t \in shorter : Len(t) = n - 1},
                                           c \in alphabet}

\* str::find of a one-character pattern: index of its first occurrence, 0 if none
Find(s, c) ==
    IF \E i \in 1..Len(s) : s[i] = c
    THEN CHOOSE i \in 1..Len(s) : s[i] = c /\ \A j \in 1..(i - 1) : s[j] # c
    ELSE 0

\* a line without the "\r" of its "\r\n" ending
StripCr(line) ==
    IF line # <<>> /\ line[Len(line)] = "\r" THEN SubSeq(line, 1, Len(line) - 1)
    ELSE line

\* str::lines: split at "\n" or "\r\n"; a final line ending does not start
\* another line
RECURSIVE Lines(_)
Lines(s) ==
    IF s = <<>> THEN <<>>
    ELSE LET k == Find(s, "\n")
         IN  IF k = 0 THEN <<s>>
             ELSE <<StripCr(SubSeq(s, 1, k - 1))>> \o Lines(SubSeq(s, k + 1, Len(s)))

\* str::trim_start
RECURSIVE TrimStart(_)
TrimStart(s) ==
    IF s # <<>> /\ IsWhitespace(Head(s)) THEN TrimStart(Tail(s)) ELSE s

\* str::starts_with of a one-character pattern
StartsWith(s, c) == s # <<>> /\ Head(s) = c

\* str::split_whitespace: the maximal runs of non-whitespace characters
RECURSIVE SplitWhitespace(_)
SplitWhitespace(s) ==
    LET t == TrimStart(s)
    IN  IF t = <<>> THEN <<>>
        ELSE LET ws == {i \in 1..Len(t) : IsWhitespace(t[i])}
                 k  == IF ws = {} THEN Len(t) + 1
                       ELSE CHOOSE i \in ws : \A j \in ws : i <= j
             IN  <<SubSeq(t, 1, k - 1)>> \o SplitWhitespace(SubSeq(t, k, Len(t)))

\* str::trim_start_matches("@"): removes the pattern repeatedly
RECURSIVE TrimStartMatches(_, _)
TrimStartMatches(s, c) ==
    IF StartsWith(s, c) THEN TrimStartMatches(Tail(s), c) ELSE s

\* str::split_once("/")
SplitOnce(s, c) ==
    LET k == Find(s, c)
    IN  IF k = 0 THEN None
        ELSE [tag |-> "Some", fst |-> SubSeq(s, 1, k - 1),
              snd |-> SubSeq(s, k + 1, Len(s))]

\* str::split_inclusive("\n"): every piece keeps its terminator
RECURSIVE SplitInclusive(_)
SplitInclusive(s) ==
    IF s = <<>> THEN <<>>
    ELSE LET k == Find(s, "\n")
         IN  IF k = 0 THEN <<s>>
             ELSE <<SubSeq(s, 1, k)>> \o SplitInclusive(SubSeq(s, k + 1, Len(s)))

\* [String]::join(sep)
RECURSIVE Join(_, _)
Join(ss, sep) ==
    IF ss = <<>> THEN <<>>
    ELSE IF Len(ss) = 1 THEN Head(ss)
    ELSE Head(ss) \o sep \o Join(Tail(ss), sep)

(***************************************************************************)
(* The mention scanner: the `users` iterator of parse_comment_for_mention. *)
(***************************************************************************)
NotQuoted(line) == ~StartsWith(line, ">")

IsMention(token) == StartsWith(token, "@")

\* the scanner without trim_start
UnquotedLinesUntrimmed(body) == SelectSeq(Lines(body), NotQuoted)

\* .lines().filter_map(trim_start, drop the lines starting with ">")
UnquotedLines(body) ==
    LET ls == Lines(body)
    IN  SelectSeq([i \in 1..Len(ls) |-> TrimStart(ls[i])], NotQuoted)

\* .flat_map(|x| x.split_whitespace())
RECURSIVE LineTokens(_)
LineTokens(ls) ==
    IF ls = <<>> THEN <<>> ELSE SplitWhitespace(Head(ls)) \o LineTokens(Tail(ls))

StripMarker(token) == TrimStartMatches(token, "@")

\* .filter_map(starts_with("@") -> trim_start_matches("@"))
MentionUsers(body) ==
    LET ms == SelectSeq(LineTokens(UnquotedLines(body)), IsMention)
    IN  [i \in 1..Len(ms) |-> StripMarker(ms[i])]

(***************************************************************************)
(* Remote services.  A lookup that succeeds gives the account's value: the *)
(* forge gives the real email of the username, the chat directory gives    *)
(* the user of the email.                                                  *)
(***************************************************************************)
AnonEmail(username) == [anon |-> TRUE, of |-> username]
GiteaEmail(username) == [anon |-> FALSE, of |-> username]
SlackUserOf(email) ==
    [id |-> <<"U">> \o (IF email.anon THEN <<"?">> ELSE <<>>) \o email.of]

User(username) == [username |-> username, email |-> AnonEmail(username)]

\* fetch_gitea_user_email: Err without the token (no request is sent),
\* otherwise one GET that gives the email or fails
FetchGiteaUserEmail(username) ==
    IF ~env.GITEA_API_TOKEN
    THEN {[ok |-> FALSE, remote |-> FALSE, email |-> AnonEmail(username)]}
    ELSE {[ok |-> FALSE, remote |-> TRUE, email |-> AnonEmail(username)],
          [ok |-> TRUE, remote |-> TRUE, email |-> GiteaEmail(username)]}

\* fetch_slack_user_from_email: Err before the request (connector, token),
\* otherwise one users.lookupByEmail that gives the user or fails
FetchSlackUserFromEmail(email) ==
    {[ok |-> FALSE, remote |-> FALSE, user |-> SlackUserOf(email)]}
    \cup (IF ~env.SLACK_API_TOKEN THEN {}
          ELSE {[ok |-> FALSE, remote |-> TRUE, user |-> SlackUserOf(email)],
                [ok |-> TRUE, remote |-> TRUE, user |-> SlackUserOf(email)]})

\* one entry per lookup or post attempted; remote: a request was sent
Call(svc, arg, out) ==
    [svc |-> svc, arg |-> arg, ok |-> out.ok, remote |-> out.remote]

(***************************************************************************)
(* Rendering.                                                              *)
(***************************************************************************)
\* SlackUserId::to_slack_format
ToSlackFormat(user) == <<"<@">> \o user.id \o <<">">>

\* strum Display of Action, serialize_all = "snake_case"
ActionDisplay(action) ==
    CASE action.kind = "Opened" -> <<"opened">>
      [] action.kind = "Closed" -> <<"closed">>
      [] action.kind = "Reopened" -> <<"reopened">>
      [] action.kind = "Merged" -> <<"merged">>
      [] action.kind = "Created" -> <<"created">>
      [] action.kind = "Reviewed" -> <<"reviewed">>
      [] action.kind = "ReviewRequested" -> <<"review_requested">>

\* strum Display of Review
ReviewDisplay(review) ==
    CASE review.kind = "Approved" -> <<"approved">>
      [] review.kind = "Rejected" -> <<"rejected">>
      [] review.kind = "Comment" -> <<"commented on">>

Header(text) == [type |-> "header", text |-> text]
Section(text) == [type |-> "section", text |-> text]
Content(blocks) == [tag |-> "Content", blocks |-> blocks]
Panic == [tag |-> "Panic"]

FormatPullRequestUrl(pull_request) ==
    <<"<", pull_request.url, "|", pull_request.title, ">">>

RenderBasicAction(w) ==
    Content(<<Section(FormatPullRequestUrl(w.pull_request) \o <<" was ">>
                      \o ActionDisplay(w.action))>>)

RECURSIVE SlackFormats(_)
SlackFormats(slack_user) ==
    IF slack_user = <<>> THEN <<>>
    ELSE <<ToSlackFormat(Head(slack_user))>> \o SlackFormats(Tail(slack_user))

\* the comment section tagging the first handle only
RenderCommentFirst(w, slack_user) ==
    Content(<<Section(ToSlackFormat(Head(slack_user))
                      \o <<", you were mentioned in a comment">>)>>)

RenderComment(w, slack_user) ==
    Content(<<Section(Join(SlackFormats(slack_user), <<" ">>)
                      \o <<", you were mentioned in a comment">>)>>)

\* slack_user.first() or the fallback username
Addressee(slack_user, fallback) ==
    IF slack_user # <<>> THEN ToSlackFormat(Head(slack_user)) ELSE fallback

RenderReviewed(w, slack_user, review) ==
    Content(<<Section(Addressee(slack_user, w.pull_request.user.username)
                      \o <<", ">> \o w.sender.username \o <<" has ">>
                      \o ReviewDisplay(review) \o <<" your PR">>)>>)

RenderReviewRequested(w, slack_user, reviewer) ==
    Content(<<Section(Addressee(slack_user, reviewer.username)
                      \o <<", ">> \o w.sender.username
                      \o <<" has requested you to review ">>
                      \o FormatPullRequestUrl(w.pull_request))>>)

RECURSIVE QuoteEach(_)
QuoteEach(pieces) ==
    IF pieces = <<>> THEN <<>>
    ELSE <<">">> \o Head(pieces) \o QuoteEach(Tail(pieces))

\* the marker before the body only
QuoteBodyOnce(body) == <<">">> \o body

\* split_inclusive("\n").map(">" + line).join("")
QuoteBody(body) == QuoteEach(SplitInclusive(body))

\* a name without separator taken as the owner
RepoNameLenient(full_name) ==
    IF Find(full_name, "/") = 0
    THEN [tag |-> "Some", fst |-> full_name, snd |-> <<>>]
    ELSE SplitOnce(full_name, "/")

RepoName(full_name) == SplitOnce(full_name, "/")

RenderPrOpened(w) ==
    LET repo_name == RepoName(w.repository.full_name)
    IN  IF repo_name = None THEN Panic
        ELSE Content(<<
               Header(repo_name.fst \o <<" | ">> \o repo_name.snd),
               Section(<<"Pull request ">> \o FormatPullRequestUrl(w.pull_request)
                       \o <<" opened by ">> \o w.sender.username),
               Section(QuoteBody(w.pull_request.body))>>)

\* MySlackMessage::render_template
RenderTemplate(w, slack_user) ==
    CASE w.action.kind = "Opened" -> RenderPrOpened(w)
      [] w.action.kind = "Reviewed" -> RenderReviewed(w, slack_user, w.action.review)
      [] w.action.kind = "ReviewRequested" ->
             RenderReviewRequested(w, slack_user, w.action.requested_reviewer)
      [] w.action.kind = "Created" -> RenderComment(w, slack_user)
      [] OTHER -> RenderBasicAction(w)

(***************************************************************************)
(* Webhook::into_my_slack, after the lookups.                              *)
(***************************************************************************)
IsSome(x) == x.tag = "Some"

Some(x) == [tag |-> "Some", val |-> x]

\* slack_users.into_iter().filter_map(|x| x).collect()
SlackUser(options) ==
    LET kept == SelectSeq(options, IsSome)
    IN  [i \in 1..Len(kept) |-> kept[i].val]

\* into_my_slack never giving None
IntoMySlackAlways(w, options) ==
    Some([webhook |-> w, slack_user |-> SlackUser(options)])

\* into_my_slack giving None whenever no chat user was found
IntoMySlackStrict(w, options) ==
    IF Len(SlackUser(options)) = 0 /\ w.action.kind \in {"Created", "Reviewed", "ReviewRequested"}
    THEN None
    ELSE Some([webhook |-> w, slack_user |-> SlackUser(options)])

\* None for a comment that tags nobody, Some(MySlackMessage) otherwise
IntoMySlack(w, options) ==
    IF w.action.kind = "Created" /\ Len(SlackUser(options)) = 0
    THEN None
    ELSE Some([webhook |-> w, slack_user |-> SlackUser(options)])

\* the recipient emails of the kinds that need no scan
ActionEmails(w) ==
    CASE w.action.kind = "ReviewRequested" -> <<w.action.requested_reviewer.email>>
      [] w.action.kind = "Reviewed" -> <<w.pull_request.user.email>>
      [] OTHER -> <<>>

Ok(ts) == [tag |-> "Ok", ts |-> ts]
Err(e) == [tag |-> "Err", error |-> e]

(***************************************************************************)
(* The inputs.                                                             *)
(***************************************************************************)
SenderName == <<"s">>
AuthorName == <<"p">>
ReviewerName == <<"r">>

ParentTs == "ts_parent"
PostedTs == {"ts_a", "ts_b"}

CommentAlphabet == {"@", ">", " ", "\n", "a", "b"}

ExampleBodies ==
    { <<">", " ", "@", "a", "\n", "@", "b">>,
      <<">", " ", "@", "a", "\n", "@", "@", "b">>,
      <<" ", ">", "@", "a", "\n", "@", "b", " ", "@", "b">>,
      <<"@", "a", " ", "x", "\r", "\n", " ", ">", "@", "b", "\r", "\n", "@", "a", "\t", "@", "b">> }

\* the comments of the pipeline's Created events
CommentBodies ==
    { <<"@", "a">>,
      <<"@", "a", " ", "@", "b">>,
      <<">", " ", "@", "a", "\n", "@", "b">>,
      <<">", "@", "a">>,
      <<"h", "i">> }

FullNames == { <<"o", "/", "n">>, <<"o", "n">> }

PullRequest(body) ==
    [body |-> body, user |-> User(AuthorName), title |-> "Fix bug",
     url |-> "https://git.example/o/n/pulls/1"]

Reviews == {[kind |-> k, content |-> "text"] : k \in {"Approved", "Rejected", "Comment"}}

ActionsWith(bodies) ==
    {[kind |-> k] : k \in {"Opened", "Closed", "Reopened", "Merged"}}
    \cup {[kind |-> "Created", comment |-> [body |-> b]] : b \in bodies}
    \cup {[kind |-> "Reviewed", review |-> r] : r \in Reviews}
    \cup {[kind |-> "ReviewRequested", requested_reviewer |-> User(ReviewerName)]}

Webhook(action, body, full_name) ==
    [action |-> action, pull_request |-> PullRequest(body),
     sender |-> User(SenderName), repository |-> [full_name |-> full_name]]

Envs == [GITEA_API_TOKEN : BOOLEAN, SLACK_API_TOKEN : BOOLEAN, SLACK_CHANNEL : BOOLEAN]

FullEnv == [GITEA_API_TOKEN |-> TRUE, SLACK_API_TOKEN |-> TRUE, SLACK_CHANNEL |-> TRUE]

Fresh ==
    /\ users = <<>>
    /\ emails = <<>>
    /\ slack_users = <<>>
    /\ message = None
    /\ calls = <<>>
    /\ result = None
    /\ deanonymised = FALSE

(***************************************************************************)
(* The pipeline: one webhook, deanonymised or not, then posted.            *)
(***************************************************************************)
Init ==
    /\ webhook \in {Webhook(a, <<"x", "\n", "y">>, n) :
                        a \in ActionsWith(CommentBodies), n \in FullNames}
    /\ env \in Envs
    /\ parent \in {None, Some(ParentTs)}
    /\ pc = "idle"
    /\ Fresh

\* the sender's lookup propagating its failure
DeanonSenderAbort ==
    /\ pc = "idle" /\ ~deanonymised
    /\ \E out \in FetchGiteaUserEmail(webhook.sender.username) :
          /\ calls' = Append(calls, Call("gitea", webhook.sender.username, out))
          /\ IF out.ok
             THEN /\ webhook' = [webhook EXCEPT !.sender.email = out.email]
                  /\ pc' = "deanon_author"
                  /\ deanonymised' = deanonymised
             ELSE /\ webhook' = webhook
                  /\ pc' = "idle"
                  /\ deanonymised' = TRUE
    /\ UNCHANGED <<env, parent, users, emails, slack_users, message, result>>

\* try_deanonymise_emails: the sender
DeanonSender ==
    /\ pc = "idle" /\ ~deanonymised
    /\ \E out \in FetchGiteaUserEmail(webhook.sender.username) :
          /\ calls' = Append(calls, Call("gitea", webhook.sender.username, out))
          /\ webhook' = IF out.ok THEN [webhook EXCEPT !.sender.email = out.email]
                        ELSE webhook
    /\ pc' = "deanon_author"
    /\ UNCHANGED <<env, parent, users, emails, slack_users, message, result,
                   deanonymised>>

\* try_deanonymise_emails: the pull request's author
DeanonAuthor ==
    /\ pc = "deanon_author"
    /\ \E out \in FetchGiteaUserEmail(webhook.pull_request.user.username) :
          /\ calls' = Append(calls,
                             Call("gitea", webhook.pull_request.user.username, out))
          /\ webhook' = IF out.ok
                        THEN [webhook EXCEPT !.pull_request.user.email = out.email]
                        ELSE webhook
    /\ pc' = "deanon_reviewer"
    /\ UNCHANGED <<env, parent, users, emails, slack_users, message, result,
                   deanonymised>>

\* try_deanonymise_emails: the requested reviewer, if the action has one
DeanonReviewer ==
    /\ pc = "deanon_reviewer"
    /\ \/ /\ webhook.action.kind = "ReviewRequested"
          /\ \E out \in FetchGiteaUserEmail(webhook.action.requested_reviewer.username) :
                /\ calls' = Append(calls,
                       Call("gitea", webhook.action.requested_reviewer.username, out))
                /\ webhook' =
                       IF out.ok
                       THEN [webhook EXCEPT !.action.requested_reviewer.email = out.email]
                       ELSE webhook
       \/ /\ webhook.action.kind # "ReviewRequested"
          /\ UNCHANGED <<webhook, calls>>
    /\ pc' = "idle"
    /\ deanonymised' = TRUE
    /\ UNCHANGED <<env, parent, users, emails, slack_users, message, result>>

\* post_slack_message not reading the credential before the lookups
PostStartLateCredential ==
    /\ pc = "idle"
    /\ \E connector \in BOOLEAN :
          IF ~connector
          THEN result' = Err("connector") /\ pc' = "done"
          ELSE result' = result /\ pc' = "into_my_slack"
    /\ UNCHANGED <<webhook, env, parent, users, emails, slack_users, message,
                   calls, deanonymised>>

\* post_slack_message: the connector and the platform credential
PostStart ==
    /\ pc = "idle"
    /\ \E connector \in BOOLEAN :
          IF ~connector
          THEN result' = Err("connector") /\ pc' = "done"
          ELSE IF ~env.SLACK_API_TOKEN
          THEN result' = Err("SLACK_API_TOKEN") /\ pc' = "done"
          ELSE result' = result /\ pc' = "into_my_slack"
    /\ UNCHANGED <<webhook, env, parent, users, emails, slack_users, message,
                   calls, deanonymised>>

\* into_my_slack: the match on the action
BuildEmails ==
    /\ pc = "into_my_slack"
    /\ IF webhook.action.kind = "Created"
       THEN /\ users' = MentionUsers(webhook.action.comment.body)
            /\ emails' = <<>>
            /\ pc' = "mention_lookup"
       ELSE /\ emails' = ActionEmails(webhook)
            /\ users' = users
            /\ pc' = "slack_lookup"
    /\ UNCHANGED <<webhook, env, parent, slack_users, message, calls, result,
                   deanonymised>>

\* the mention loop ending at the first failed lookup
MentionLookupAbort ==
    /\ pc = "mention_lookup" /\ users # <<>>
    /\ \E out \in FetchGiteaUserEmail(Head(users)) :
          /\ calls' = Append(calls, Call("gitea", Head(users), out))
          /\ emails' = IF out.ok THEN Append(emails, out.email) ELSE emails
          /\ users' = IF out.ok THEN Tail(users) ELSE <<>>
    /\ UNCHANGED <<webhook, env, parent, pc, slack_users, message, result,
                   deanonymised>>

\* parse_comment_for_mention: one turn of the loop over the mentions
MentionLookup ==
    /\ pc = "mention_lookup" /\ users # <<>>
    /\ \E out \in FetchGiteaUserEmail(Head(users)) :
          /\ calls' = Append(calls, Call("gitea", Head(users), out))
          /\ emails' = IF out.ok THEN Append(emails, out.email) ELSE emails
    /\ users' = Tail(users)
    /\ UNCHANGED <<webhook, env, parent, pc, slack_users, message, result,
                   deanonymised>>

\* parse_comment_for_mention returns mention_emails
MentionsDone ==
    /\ pc = "mention_lookup" /\ users = <<>>
    /\ pc' = "slack_lookup"
    /\ UNCHANGED <<webhook, env, parent, users, emails, slack_users, message,
                   calls, result, deanonymised>>

\* into_my_slack: one turn of the loop over the emails
SlackLookup ==
    /\ pc = "slack_lookup" /\ Len(slack_users) < Len(emails)
    /\ LET email == emails[Len(slack_users) + 1]
       IN  \E out \in FetchSlackUserFromEmail(email) :
              /\ calls' = Append(calls, Call("slack_lookup", email, out))
              /\ slack_users' = Append(slack_users,
                                       IF out.ok THEN Some(out.user) ELSE None)
    /\ UNCHANGED <<webhook, env, parent, pc, users, emails, message, result,
                   deanonymised>>

\* into_my_slack returns; .context("Unable to convert")?.render_template()
Render ==
    /\ pc = "slack_lookup" /\ Len(slack_users) = Len(emails)
    /\ LET my == IntoMySlack(webhook, slack_users)
       IN  IF my = None
           THEN /\ result' = Err("Unable to convert")
                /\ message' = message
                /\ pc' = "done"
           ELSE LET content == RenderTemplate(my.val.webhook, my.val.slack_user)
                IN  IF content = Panic
                    THEN /\ result' = Panic
                         /\ message' = message
                         /\ pc' = "done"
                    ELSE /\ message' = content
                         /\ result' = result
                         /\ pc' = "channel"
    /\ UNCHANGED <<webhook, env, parent, users, emails, slack_users, calls,
                   deanonymised>>

\* config_env_var("SLACK_CHANNEL")?
ReadChannel ==
    /\ pc = "channel"
    /\ IF env.SLACK_CHANNEL
       THEN pc' = "post" /\ result' = result
       ELSE pc' = "done" /\ result' = Err("SLACK_CHANNEL")
    /\ UNCHANGED <<webhook, env, parent, users, emails, slack_users, message,
                   calls, deanonymised>>

\* a post that is sent again once when it fails
PostMessageRetry ==
    /\ pc = "post"
    /\ \/ \E ts \in PostedTs :
             /\ calls' = Append(calls,
                    [svc |-> "post", arg |-> message, thread_ts |-> parent,
                     ok |-> TRUE, remote |-> TRUE, ts |-> ts])
             /\ result' = Ok(ts)
             /\ pc' = "done"
       \/ /\ calls' = Append(calls,
                    [svc |-> "post", arg |-> message, thread_ts |-> parent,
                     ok |-> FALSE, remote |-> TRUE, ts |-> "none"])
          /\ IF \E i \in 1..Len(calls) : calls[i].svc = "post"
             THEN result' = Err("chat.postMessage") /\ pc' = "done"
             ELSE result' = result /\ pc' = "post"
    /\ UNCHANGED <<webhook, env, parent, users, emails, slack_users, message,
                   deanonymised>>

\* chat_post_message(&post_chat_req).await? ; Ok(post_chat_resp.ts)
PostMessage ==
    /\ pc = "post"
    /\ \/ \E ts \in PostedTs :
             /\ calls' = Append(calls,
                    [svc |-> "post", arg |-> message, thread_ts |-> parent,
                     ok |-> TRUE, remote |-> TRUE, ts |-> ts])
             /\ result' = Ok(ts)
       \/ /\ calls' = Append(calls,
                    [svc |-> "post", arg |-> message, thread_ts |-> parent,
                     ok |-> FALSE, remote |-> TRUE, ts |-> "none"])
          /\ result' = Err("chat.postMessage")
    /\ pc' = "done"
    /\ UNCHANGED <<webhook, env, parent, users, emails, slack_users, message,
                   deanonymised>>

Next ==
    \/ DeanonSender
    \/ DeanonAuthor
    \/ DeanonReviewer
    \/ PostStart
    \/ BuildEmails
    \/ MentionLookup
    \/ MentionsDone
    \/ SlackLookup
    \/ Render
    \/ ReadChannel
    \/ PostMessage

Spec == Init /\ [][Next]_vars

(***************************************************************************)
(* The mention scanner alone, over every comment body up to MaxBodyLen.    *)
(***************************************************************************)
InitScan ==
    /\ webhook \in {Webhook([kind |-> "Created", comment |-> [body |-> b]],
                            <<"x">>, <<"o", "/", "n">>) :
                        b \in StrSeqs(CommentAlphabet, MaxBodyLen) \cup ExampleBodies}
    /\ env = FullEnv
    /\ parent = None
    /\ pc = "into_my_slack"
    /\ Fresh

NextScan == BuildEmails

SpecScan == InitScan /\ [][NextScan]_vars

(***************************************************************************)
(* Rendering alone: into_my_slack's result and render_template, over every *)
(* repository name up to MaxNameLen, every pull-request body up to         *)
(* MaxPrBodyLen and every outcome of the chat lookups.                     *)
(***************************************************************************)
NameAlphabet == {"o", "n", "/"}
PrBodyAlphabet == {"x", "\n", ">"}

\* the results the chat lookups of the emails can have had
LookupResults(es) ==
    {[i \in 1..Len(es) |-> IF i \in S THEN Some(SlackUserOf(es[i])) ELSE None] :
        S \in SUBSET (1..Len(es))}

MentionEmails ==
    LET e == {GiteaEmail(<<"a">>), GiteaEmail(<<"b">>)}
    IN  {<<>>} \cup {<<x>> : x \in e} \cup {<<x, y>> : x \in e, y \in e}

InitRender ==
    /\ \E a \in ActionsWith({<<"@", "a", " ", "@", "b">>}),
          n \in StrSeqs(NameAlphabet, MaxNameLen) :
          \E b \in IF a.kind = "Opened" THEN StrSeqs(PrBodyAlphabet, MaxPrBodyLen)
                   ELSE {<<"x", "\n", "y">>} :
             webhook = Webhook(a, b, n)
    /\ emails \in IF webhook.action.kind = "Created" THEN MentionEmails
                  ELSE {ActionEmails(webhook)}
    /\ slack_users \in LookupResults(emails)
    /\ env = FullEnv
    /\ parent = None
    /\ pc = "slack_lookup"
    /\ users = <<>>
    /\ message = None
    /\ calls = <<>>
    /\ result = None
    /\ deanonymised = FALSE

NextRender == Render

SpecRender == InitRender /\ [][NextRender]_vars

(***************************************************************************)
(* Vocabulary of the properties.                                           *)
(***************************************************************************)
Kind == webhook.action.kind

\* the lookups try_deanonymise_emails has logged before post_slack_message
NDeanon ==
    IF pc \in {"deanon_author", "deanon_reviewer"} THEN Len(calls)
    ELSE IF ~deanonymised THEN 0
    ELSE IF Kind = "ReviewRequested" THEN 3 ELSE 2

\* the calls of the post_slack_message invocation
PostCalls == SubSeq(calls, NDeanon + 1, Len(calls))

IsPost(c) == c.svc = "post"
IsGitea(c) == c.svc = "gitea"
IsSlackLookup(c) == c.svc = "slack_lookup"
IsResolved(c) == c.svc = "slack_lookup" /\ c.ok

Posts == SelectSeq(PostCalls, IsPost)

Returned == pc = "done"

\* into_my_slack has returned
Converted ==
    \/ pc \in {"channel", "post"}
    \/ Returned /\ result # Err("connector") /\ result # Err("SLACK_API_TOKEN")

\* the chat handles of the lookups that succeeded, in the order of the calls
ResolvedHandles ==
    LET rs == SelectSeq(PostCalls, IsResolved)
    IN  [i \in 1..Len(rs) |-> SlackUserOf(rs[i].arg)]

(***************************************************************************)
(* C3 (as amended): the scanner yields exactly the whitespace-separated    *)
(* tokens that begin with "@", each with all of its leading "@" removed,   *)
(* of the lines whose first non-whitespace character is not ">", in the    *)
(* order of the comment, duplicates kept.                                  *)
(***************************************************************************)
Body == webhook.action.comment.body

TokenStarts ==
    {i \in 1..Len(Body) :
        ~IsWhitespace(Body[i]) /\ (i = 1 \/ IsWhitespace(Body[i - 1]))}

TokenEnd(i) ==
    CHOOSE j \in i..Len(Body) :
        /\ \A k \in i..j : ~IsWhitespace(Body[k])
        /\ (j = Len(Body) \/ IsWhitespace(Body[j + 1]))

LineStartOf(i) ==
    CHOOSE s \in 1..i :
        /\ (s = 1 \/ Body[s - 1] = "\n")
        /\ \A k \in s..i : k = i \/ Body[k] # "\n"

OnQuotedLine(i) ==
    \E q \in LineStartOf(i)..i :
        /\ Body[q] = ">"
        /\ \A k \in LineStartOf(i)..(q - 1) : IsWhitespace(Body[k])

MentionStarts == {i \in TokenStarts : Body[i] = "@" /\ ~OnQuotedLine(i)}

MentionRank(i) == Cardinality({j \in MentionStarts : j <= i})

\* the token with one marker removed
NameAfterMarker(i) == SubSeq(Body, i + 1, TokenEnd(i))

\* the token with every leading marker removed
NameAfterMarkers(i) ==
    LET rest == {k \in i..TokenEnd(i) : Body[k] # "@"}
        from == IF rest = {} THEN TokenEnd(i) + 1
                ELSE CHOOSE k \in rest : \A m \in rest : k <= m
    IN  SubSeq(Body, from, TokenEnd(i))

Scanned == Kind = "Created" /\ pc = "mention_lookup" /\ PostCalls = <<>>

C3_ScannerYieldsUnquotedMentions ==
    Scanned =>
        /\ Len(users) = Cardinality(MentionStarts)
        /\ \A i \in MentionStarts : users[MentionRank(i)] = NameAfterMarkers(i)

\* C3 as stated: the marker, one "@", is stripped from each token
C3_Original ==
    Scanned =>
        /\ Len(users) = Cardinality(MentionStarts)
        /\ \A i \in MentionStarts : users[MentionRank(i)] = NameAfterMarker(i)

C3_Witness ==
    /\ Scanned
    /\ Body = <<">", " ", "@", "a", "\n", "@", "@", "b">>
    /\ users = << <<"b">> >>

(***************************************************************************)
(* C8: for an Opened event the rendered blocks are the header, the section *)
(* "Pull request <url|title> opened by <sender username>" and a section    *)
(* holding the pull-request body with ">" put before every physical line   *)
(* and nothing else changed.                                               *)
(***************************************************************************)
PrBody == webhook.pull_request.body

\* the positions of the body where a physical line starts
PhysicalLineStarts == {i \in 1..Len(PrBody) : i = 1 \/ PrBody[i - 1] = "\n"}

MarkersUpTo(i) == Cardinality({s \in PhysicalLineStarts : s <= i})

IsQuotedBody(text) ==
    /\ Len(text) = Len(PrBody) + Cardinality(PhysicalLineStarts)
    /\ \A i \in 1..Len(PrBody) : text[i + MarkersUpTo(i)] = PrBody[i]
    /\ \A s \in PhysicalLineStarts : text[s + MarkersUpTo(s) - 1] = ">"

Rendered == message # None

C8_OpenedQuotesEveryBodyLine ==
    (Kind = "Opened" /\ Rendered) =>
        /\ Len(message.blocks) = 3
        /\ message.blocks[1].type = "header"
        /\ message.blocks[2] =
               [type |-> "section",
                text |-> <<"Pull request ", "<", webhook.pull_request.url, "|",
                           webhook.pull_request.title, ">", " opened by ">>
                         \o webhook.sender.username]
        /\ message.blocks[3].type = "section"
        /\ IsQuotedBody(message.blocks[3].text)

C8_Witness ==
    /\ Kind = "Opened" /\ Rendered
    /\ PrBody = <<"x", "\n", "x">>
    /\ message.blocks[3].text = <<">", "x", "\n", ">", "x">>

(***************************************************************************)
(* C6: rendering is fatal for a repository full name without "/" when the  *)
(* action is Opened and only then: every other kind renders what it        *)
(* renders for a well-formed name, and an Opened event whose name has a    *)
(* separator renders the header "owner | name", split at the separator.    *)
(***************************************************************************)
FullName == webhook.repository.full_name

HasSeparator == \E i \in 1..Len(FullName) : FullName[i] = "/"

RenderReturned == pc \in {"channel", "done"}

WellNamed == [webhook EXCEPT !.repository.full_name = <<"o", "/", "n">>]

C6_FatalOnlyForOpenedWithoutSeparator ==
    RenderReturned =>
        /\ (Kind = "Opened" /\ ~HasSeparator) => (result = Panic /\ ~Rendered)
        /\ (Kind = "Opened" /\ HasSeparator) =>
              /\ result # Panic
              /\ Rendered
              /\ \E k \in 1..Len(FullName) :
                    /\ FullName[k] = "/"
                    /\ \A j \in 1..(k - 1) : FullName[j] # "/"
                    /\ message.blocks[1] =
                          [type |-> "header",
                           text |-> SubSeq(FullName, 1, k - 1) \o <<" | ">>
                                    \o SubSeq(FullName, k + 1, Len(FullName))]
        /\ Kind # "Opened" =>
              /\ result # Panic
              /\ IF Kind = "Created" /\ SlackUser(slack_users) = <<>>
                 THEN ~Rendered
                 ELSE Rendered
                      /\ message = RenderTemplate(WellNamed, SlackUser(slack_users))

C6_Witness ==
    /\ RenderReturned
    /\ Kind = "Opened"
    /\ FullName = <<"o", "n">>
    /\ result = Panic

(***************************************************************************)
(* C1 (as amended): when post_slack_message runs on a Created event whose  *)
(* mentions map to zero chat handles, nothing is posted and the caller     *)
(* gets the error "Unable to convert".                                     *)
(***************************************************************************)
NoHandles == Kind = "Created" /\ Returned /\ Converted /\ ResolvedHandles = <<>>

C1_NoHandlesIsAnError ==
    NoHandles =>
        /\ Posts = <<>>
        /\ ~Rendered
        /\ result = Err("Unable to convert")

\* C1 as stated: nothing is posted and the outcome is not an error
C1_Original ==
    NoHandles => (Posts = <<>> /\ result.tag # "Err")

C1_Witness ==
    /\ NoHandles
    /\ \E i \in 1..Len(PostCalls) : IsSlackLookup(PostCalls[i]) /\ PostCalls[i].remote
    /\ result = Err("Unable to convert")

(***************************************************************************)
(* C2: when try_deanonymise_emails returns, the sender, then the author,   *)
(* then (only for ReviewRequested) the requested reviewer have each been   *)
(* looked up once, whatever the other lookups gave, and each email is the  *)
(* looked-up one if its own lookup succeeded and the one it had before     *)
(* otherwise; without the forge credential every lookup fails.             *)
(***************************************************************************)
DeanonReturned == deanonymised /\ pc = "idle"

EmailAfter(call, username) ==
    IF call.ok THEN GiteaEmail(username) ELSE AnonEmail(username)

C2_DeanonymiseIsFailOpenPerLookup ==
    DeanonReturned =>
        /\ Len(calls) = IF Kind = "ReviewRequested" THEN 3 ELSE 2
        /\ \A i \in 1..Len(calls) :
              /\ IsGitea(calls[i])
              /\ ~env.GITEA_API_TOKEN => (~calls[i].ok /\ ~calls[i].remote)
        /\ calls[1].arg = SenderName
        /\ calls[2].arg = AuthorName
        /\ webhook.sender = [username |-> SenderName,
                             email |-> EmailAfter(calls[1], SenderName)]
        /\ webhook.pull_request.user = [username |-> AuthorName,
                                        email |-> EmailAfter(calls[2], AuthorName)]
        /\ Kind = "ReviewRequested" =>
              /\ calls[3].arg = ReviewerName
              /\ webhook.action.requested_reviewer =
                     [username |-> ReviewerName,
                      email |-> EmailAfter(calls[3], ReviewerName)]

C2_Witness ==
    /\ DeanonReturned
    /\ Kind = "ReviewRequested"
    /\ ~calls[1].ok /\ calls[2].ok /\ ~calls[3].ok
    /\ webhook.sender.email = AnonEmail(SenderName)
    /\ webhook.pull_request.user.email = GiteaEmail(AuthorName)
    /\ webhook.action.requested_reviewer.email = AnonEmail(ReviewerName)

(***************************************************************************)
(* C4: for a Created event, once into_my_slack has returned: with no chat  *)
(* handle resolved nothing is rendered; otherwise the one section reads    *)
(* "<tags>, you were mentioned in a comment", the tags being the resolved  *)
(* handles, space-separated, in the order in which they were resolved.     *)
(***************************************************************************)
RECURSIVE TagsText(_)
TagsText(handles) ==
    IF handles = <<>> THEN <<>>
    ELSE <<"<@">> \o Head(handles).id \o <<">">>
         \o (IF Len(handles) > 1 THEN <<" ">> ELSE <<>>)
         \o TagsText(Tail(handles))

C4_CommentRenderingAllOrNothing ==
    (Kind = "Created" /\ Converted) =>
        IF ResolvedHandles = <<>>
        THEN ~Rendered
        ELSE message = [tag |-> "Content",
                        blocks |-> <<[type |-> "section",
                                      text |-> TagsText(ResolvedHandles)
                                          \o <<", you were mentioned in a comment">>]>>]

C4_Witness ==
    /\ Kind = "Created" /\ Converted
    /\ Len(ResolvedHandles) = 2
    /\ message.blocks[1].text =
           <<"<@", "U", "a", ">", " ", "<@", "U", "b", ">",
             ", you were mentioned in a comment">>

(***************************************************************************)
(* C5: for a Reviewed or ReviewRequested event the chat lookup never       *)
(* suppresses or fails the notification: into_my_slack always gives a      *)
(* message, whose section is addressed by the chat handle if the lookup    *)
(* succeeded and by the raw forge username otherwise (the author's for     *)
(* Reviewed, the requested reviewer's for ReviewRequested); with the       *)
(* channel set it is posted, and only the post itself can still fail.      *)
(***************************************************************************)
ReviewKind == Kind \in {"Reviewed", "ReviewRequested"}

RawUsername ==
    IF Kind = "Reviewed" THEN webhook.pull_request.user.username
    ELSE webhook.action.requested_reviewer.username

ExpectedAddressee ==
    IF ResolvedHandles # <<>>
    THEN <<"<@">> \o ResolvedHandles[1].id \o <<">">>
    ELSE RawUsername

ExpectedReviewText ==
    IF Kind = "Reviewed"
    THEN ExpectedAddressee \o <<", ">> \o webhook.sender.username \o <<" has ">>
         \o (CASE webhook.action.review.kind = "Approved" -> <<"approved">>
               [] webhook.action.review.kind = "Rejected" -> <<"rejected">>
               [] webhook.action.review.kind = "Comment" -> <<"commented on">>)
         \o <<" your PR">>
    ELSE ExpectedAddressee \o <<", ">> \o webhook.sender.username
         \o <<" has requested you to review ">>
         \o <<"<", webhook.pull_request.url, "|", webhook.pull_request.title, ">">>

C5_ReviewNotificationsSurviveFailedLookup ==
    (ReviewKind /\ Converted) =>
        /\ message = [tag |-> "Content",
                      blocks |-> <<[type |-> "section", text |-> ExpectedReviewText]>>]
        /\ ResolvedHandles = <<>> => message.blocks[1].text[1] # "<@"
        /\ (Returned /\ env.SLACK_CHANNEL) =>
              /\ Len(Posts) = 1
              /\ Posts[1].arg = message
              /\ result.tag = IF Posts[1].ok THEN "Ok" ELSE "Err"
        /\ (Returned /\ ~env.SLACK_CHANNEL) => result = Err("SLACK_CHANNEL")

C5_Witness ==
    /\ Kind = "ReviewRequested" /\ Returned
    /\ \E i \in 1..Len(PostCalls) :
          IsSlackLookup(PostCalls[i]) /\ PostCalls[i].remote /\ ~PostCalls[i].ok
    /\ message.blocks[1].text[1] = "r"
    /\ Len(Posts) = 1
    /\ result.tag = "Ok"

(***************************************************************************)
(* C7: one invocation of post_slack_message sends at most one post and     *)
(* nothing after it; the post carries the thread handle exactly when the   *)
(* caller gave a parent; Ok is returned only for a post that succeeded,    *)
(* with that post's timestamp; a post that failed, a channel missing when  *)
(* it is read and a missing platform credential each return an error.      *)
(***************************************************************************)
C7_AtMostOnePostNoRetry ==
    /\ Len(Posts) <= 1
    /\ \A i \in 1..Len(PostCalls) :
          IsPost(PostCalls[i]) =>
              /\ i = Len(PostCalls)
              /\ Returned
              /\ PostCalls[i].thread_ts = parent
              /\ PostCalls[i].arg = message
              /\ result = IF PostCalls[i].ok THEN [tag |-> "Ok", ts |-> PostCalls[i].ts]
                          ELSE Err("chat.postMessage")
    /\ (Returned /\ result.tag = "Ok") => (Len(Posts) = 1 /\ Posts[1].ok)
    /\ (Returned /\ Rendered /\ ~env.SLACK_CHANNEL) =>
          (Posts = <<>> /\ result = Err("SLACK_CHANNEL"))
    /\ (Returned /\ ~env.SLACK_API_TOKEN) =>
          (Posts = <<>> /\ result.tag = "Err")

C7_Witness ==
    /\ Returned
    /\ parent = [tag |-> "Some", val |-> ParentTs]
    /\ Len(Posts) = 1
    /\ ~Posts[1].ok
    /\ Posts[1].thread_ts = parent
    /\ result.tag = "Err"

(***************************************************************************)
(* C9: the recipient emails depend only on the action kind: the requested  *)
(* reviewer's for ReviewRequested, the author's for Reviewed, none for     *)
(* Opened, Closed, Reopened and Merged, and for Created the emails of the  *)
(* scanned mentions whose forge lookup succeeded, every mention having     *)
(* been looked up, in order.  Every email is then looked up in the chat    *)
(* directory, a failure leaving out that email alone.                      *)
(***************************************************************************)
EmailsBuilt == pc \in {"slack_lookup", "channel", "post"} \/ (Returned /\ Converted)

MentionCalls == SelectSeq(PostCalls, IsGitea)
MentionOk(c) == c.ok
ChatCalls == SelectSeq(PostCalls, IsSlackLookup)

C9_RecipientsByActionKind ==
    /\ EmailsBuilt =>
          /\ Kind = "ReviewRequested" =>
                emails = <<webhook.action.requested_reviewer.email>>
          /\ Kind = "Reviewed" => emails = <<webhook.pull_request.user.email>>
          /\ Kind \in {"Opened", "Closed", "Reopened", "Merged"} => emails = <<>>
          /\ Kind = "Created" =>
                /\ [i \in 1..Len(MentionCalls) |-> MentionCalls[i].arg]
                       = MentionUsers(webhook.action.comment.body)
                /\ LET found == SelectSeq(MentionCalls, MentionOk)
                   IN  emails = [i \in 1..Len(found) |-> GiteaEmail(found[i].arg)]
          /\ Kind # "Created" => MentionCalls = <<>>
    /\ Converted =>
          /\ [i \in 1..Len(ChatCalls) |-> ChatCalls[i].arg] = emails
          /\ slack_users = [i \in 1..Len(emails) |->
                               IF ChatCalls[i].ok
                               THEN [tag |-> "Some", val |-> SlackUserOf(emails[i])]
                               ELSE None]

C9_Witness ==
    /\ Kind = "Created" /\ Returned /\ Converted
    /\ Len(MentionCalls) = 2
    /\ ~MentionCalls[1].ok
    /\ emails = <<GiteaEmail(<<"b">>)>>
    /\ Len(ChatCalls) = 1

(***************************************************************************)
(* C10 (as amended): post_slack_message reads the platform credential      *)
(* before any lookup and the channel after rendering.  A post is the last  *)
(* call of the invocation, made when every forge and chat lookup is over.  *)
(* Without the credential the invocation returns an error and has made no  *)
(* call.  With the credential and without the channel nothing is posted,   *)
(* and the invocation returns an error, after the lookups, unless          *)
(* rendering has panicked first (Opened, repository name without "/").     *)
(***************************************************************************)
LookupsOver ==
    /\ users = <<>>
    /\ Len(slack_users) = Len(emails)
    /\ Len(ChatCalls) = Len(emails)

C10_Ordering ==
    /\ \A i \in 1..Len(PostCalls) :
          IsPost(PostCalls[i]) => (i = Len(PostCalls) /\ LookupsOver /\ Rendered)
    /\ PostCalls # <<>> => env.SLACK_API_TOKEN
    /\ (Returned /\ ~env.SLACK_API_TOKEN) => (result.tag = "Err" /\ PostCalls = <<>>)
    /\ result = Err("SLACK_CHANNEL") => (LookupsOver /\ Rendered)

C10_CredentialFirstChannelLast ==
    /\ C10_Ordering
    /\ (Returned /\ env.SLACK_API_TOKEN /\ ~env.SLACK_CHANNEL) =>
          /\ Posts = <<>>
          /\ \/ result.tag = "Err"
             \/ result = Panic /\ Kind = "Opened" /\ ~HasSeparator

\* C10 as stated: with only the channel missing an error is returned
C10_Original ==
    /\ C10_Ordering
    /\ (Returned /\ env.GITEA_API_TOKEN /\ env.SLACK_API_TOKEN /\ ~env.SLACK_CHANNEL) =>
          (Posts = <<>> /\ result.tag = "Err")

C10_Witness ==
    /\ Returned
    /\ env.SLACK_API_TOKEN /\ ~env.SLACK_CHANNEL
    /\ Kind = "Created"
    /\ Len(MentionCalls) = 2 /\ Len(ChatCalls) = 2
    /\ result = Err("SLACK_CHANNEL")

====
